---- MODULE Spec2Model ----
(***************************************************************************)
(* Model of reinvent_plugins/components/comp_synthetic_feasibility.py:     *)
(* the SyntheticFeasibility scoring component (construction, __call__ and  *)
(* _parse_response) together with the remote servers it posts to.          *)
(*                                                                         *)
(* Python values are modelled as follows.                                  *)
(*   - a parsed JSON value is a record with a type tag t: null, bool, num, *)
(*     str (a sequence of one-character strings), list, dict (a function   *)
(*     from keys to JSON values);                                          *)
(*   - a float32 array slot is Num(x) or NaN; numbers are integers, and    *)
(*     the float32 store rounds them to a 24-bit significand;              *)
(*   - a Python call that may raise returns a record whose exc field is    *)
(*     the exception's class name, or NoExc.                               *)
(*                                                                         *)
(* Outside the model: the normalize_smiles decorator (the batch is taken   *)
(* as __call__ receives it) and response.json() itself (a body is taken as *)
(* already parsed JSON).                                                   *)
(***************************************************************************)
EXTENDS Integers, Sequences, FiniteSets, TLC

VARIABLES
    params,               \* the Parameters object given to __init__
    server_urls,          \* self.server_urls
    server_ports,         \* self.server_ports
    server_endpoints,     \* self.server_endpoints
    number_of_endpoints,  \* self.number_of_endpoints
    pc,                   \* position of __call__: idle, loop, returned, raised
    smilies,              \* the batch of the current call
    scores,               \* the local list scores of the current call
    it,                   \* number of zip triples the for loop has consumed
    requests,             \* the POSTs sent during the current call, in order
    responses,            \* what each of those POSTs came back with
    error,                \* the exception that left __call__, if any
    result,               \* the ComponentResults handed back, if any
    server,               \* deterministic remote: endpoint position -> behaviour
    lastCall,             \* the caller's record of its previous finished call
    p_json,               \* _parse_response under test: response_json
    p_size,               \* _parse_response under test: data_size
    p_out,                \* _parse_response under test: its outcome
    p_pc                  \* _parse_response under test: ready or done

compVars == <<params, server_urls, server_ports, server_endpoints, number_of_endpoints>>
callVars == <<pc, smilies, scores, it, requests, responses, error, result>>
envVars == <<server, lastCall>>
parseVars == <<p_json, p_size, p_out, p_pc>>
vars == <<compVars, callVars, envVars, parseVars>>

(***************************************************************************)
(* Bounds of the model.                                                    *)
(***************************************************************************)
MaxEndpoints == 2   \* longest configured list
MaxBatch == 2       \* largest batch
MaxLen == 3         \* longest response list handed to _parse_response alone

(***************************************************************************)
(* Program constants.                                                      *)
(***************************************************************************)
DEFAULT_SERVER_URL == "http://localhost"
DEFAULT_SERVER_PORT == 5000
DEFAULT_SERVER_ENDPOINT == "synthetic_feasibility_surrogate"
REQUEST_TIMEOUT == 30
HTTP_OK == 200

(***************************************************************************)
(* Parsed JSON values.                                                     *)
(***************************************************************************)
JNull == [t |-> "null"]
JBool(b) == [t |-> "bool", b |-> b]
JNum(n) == [t |-> "num", n |-> n]
JStr(s) == [t |-> "str", s |-> s]
JList(items) == [t |-> "list", items |-> items]
JDict(d) == [t |-> "dict", d |-> d]

(***************************************************************************)
(* Python exceptions as values.                                            *)
(***************************************************************************)
NoExc == "None"

\* The requests exceptions a POST can end with; all derive from
\* requests.exceptions.RequestException.
RequestExceptions == {"ConnectionError", "Timeout"}

\* Mutant: except requests.exceptions.ConnectionError
IsConnectionErrorOnly(exc) == exc = "ConnectionError"

\* Mutant: except Exception
IsAnyException(exc) == TRUE

\* except requests.exceptions.RequestException
IsRequestException(exc) == exc \in RequestExceptions

\* except (ValueError, TypeError, KeyError)
ParseCaught == {"ValueError", "TypeError", "KeyError"}

(***************************************************************************)
(* float32 arrays.                                                         *)
(***************************************************************************)
NaN == [nan |-> TRUE, v |-> 0]
Num(x) == [nan |-> FALSE, v |-> x]

\* np.full(size, np.nan, dtype=np.float32)
np_full(size) == [k \in 1..size |-> NaN]

\* Rounding of a non-negative integer below 2^31 to the nearest float32
\* (24-bit significand, ties to even): the store into a float32 array.
RECURSIVE RoundTo(_, _)
RoundTo(x, step) ==
    LET q == x \div step
        r == x % step
    IN  IF q >= 16777216 THEN RoundTo(x, 2 * step)
        ELSE IF 2 * r < step THEN q * step
        ELSE IF 2 * r > step THEN (q + 1) * step
        ELSE IF q % 2 = 0 THEN q * step
        ELSE (q + 1) * step

Float32(x) == RoundTo(x, 1)

(***************************************************************************)
(* float(prediction).                                                      *)
(***************************************************************************)
Digits == <<"0", "1", "2", "3", "4", "5", "6", "7", "8", "9">>

IsDigit(c) == \E k \in 1..10 : Digits[k] = c

DigitVal(c) == (CHOOSE k \in 1..10 : Digits[k] = c) - 1

RECURSIVE DecimalValue(_)
DecimalValue(s) ==
    IF s = <<>> THEN 0
    ELSE 10 * DecimalValue(SubSeq(s, 1, Len(s) - 1)) + DigitVal(s[Len(s)])

\* float() of a parsed JSON value: numbers and booleans convert, a string
\* converts when it is a numeral (here: a non-empty run of digits) and raises
\* ValueError otherwise, lists and dictionaries raise TypeError.
PyFloat(value) ==
    CASE value.t = "num" -> [exc |-> NoExc, val |-> value.n]
      [] value.t = "bool" -> [exc |-> NoExc, val |-> IF value.b THEN 1 ELSE 0]
      [] value.t = "str" ->
            IF value.s # <<>> /\ \A k \in 1..Len(value.s) : IsDigit(value.s[k])
            THEN [exc |-> NoExc, val |-> DecimalValue(value.s)]
            ELSE [exc |-> "ValueError", val |-> 0]
      [] OTHER -> [exc |-> "TypeError", val |-> 0]

(***************************************************************************)
(* _parse_response.                                                        *)
(***************************************************************************)
\* result.get("prediction"): only a dictionary has the method; the value of
\* the key, or None when the key is absent.
GetPrediction(entry) ==
    IF entry.t # "dict" THEN [exc |-> "AttributeError", val |-> JNull]
    ELSE IF "prediction" \in DOMAIN entry.d
         THEN [exc |-> NoExc, val |-> entry.d["prediction"]]
         ELSE [exc |-> NoExc, val |-> JNull]

\* The try statement of the loop body for entry number i (counted from 0):
\* the exception that leaves it, if any, and the array after it.
ParseEntry(entry, i, results) ==
    LET got == GetPrediction(entry)
    IN  IF got.exc # NoExc
        THEN [exc |-> IF got.exc \in ParseCaught THEN NoExc ELSE got.exc,
              results |-> results]
        ELSE IF got.val = JNull
        THEN [exc |-> NoExc, results |-> results]
        ELSE LET f == PyFloat(got.val)
             IN  IF f.exc # NoExc
                 THEN [exc |-> IF f.exc \in ParseCaught THEN NoExc ELSE f.exc,
                       results |-> results]
                 ELSE [exc |-> NoExc,
                       results |-> [results EXCEPT ![i + 1] = Num(Float32(f.val))]]

\* Mutant: the loop stops one entry early (if i >= data_size - 1: break).
RECURSIVE ParseLoopOffByOne(_, _, _, _)
ParseLoopOffByOne(items, i, data_size, results) ==
    IF i >= Len(items) THEN [exc |-> NoExc, results |-> results]
    ELSE IF i >= data_size - 1 THEN [exc |-> NoExc, results |-> results]
    ELSE LET step == ParseEntry(items[i + 1], i, results)
         IN  IF step.exc # NoExc THEN step
             ELSE ParseLoopOffByOne(items, i + 1, data_size, step.results)

\* for i, result in enumerate(response_json), from entry number i on.
RECURSIVE ParseLoop(_, _, _, _)
ParseLoop(items, i, data_size, results) ==
    IF i >= Len(items) THEN [exc |-> NoExc, results |-> results]
    ELSE IF i >= data_size THEN [exc |-> NoExc, results |-> results]
    ELSE LET step == ParseEntry(items[i + 1], i, results)
         IN  IF step.exc # NoExc THEN step
             ELSE ParseLoop(items, i + 1, data_size, step.results)

\* Mutant: the array is sized by the response (np.full(len(response_json), ...)).
parse_response_sized_by_response(response_json, data_size) ==
    IF response_json.t # "list" THEN [exc |-> NoExc, results |-> np_full(data_size)]
    ELSE ParseLoop(response_json.items, 0, Len(response_json.items),
                   np_full(Len(response_json.items)))

_parse_response(response_json, data_size) ==
    LET results == np_full(data_size)
    IN  IF response_json.t # "list" THEN [exc |-> NoExc, results |-> results]
        ELSE ParseLoop(response_json.items, 0, data_size, results)

(***************************************************************************)
(* Inputs of _parse_response taken alone.                                  *)
(***************************************************************************)
SmilesOf == <<"C", "CC", "CCO", "CCCO", "CCCCO">>

NumValues == {2, 16777219}

WellFormedEntries ==
    {JDict([smiles |-> JStr(<<"C">>), prediction |-> JNum(n)]) : n \in NumValues}

MalformedDictEntries ==
    { JDict([smiles |-> JStr(<<"C">>), prediction |-> JNull]),
      JDict([smiles |-> JStr(<<"C">>)]),
      JDict([smiles |-> JStr(<<"C">>), prediction |-> JStr(<<"1", "7">>)]),
      JDict([smiles |-> JStr(<<"C">>), prediction |-> JStr(<<"n", "a">>)]),
      JDict([smiles |-> JStr(<<"C">>), prediction |-> JList(<<>>)]),
      JDict([smiles |-> JStr(<<"C">>), prediction |-> JBool(TRUE)]) }

NonDictEntries == {JStr(<<"x">>), JNum(2), JNull, JList(<<>>)}

ParseEntries == WellFormedEntries \cup MalformedDictEntries \cup NonDictEntries

SeqsUpTo(S, n) == UNION {[1..k -> S] : k \in 0..n}

NonListBodies == {JDict([error |-> JStr(<<"x">>)]), JNum(2), JNull}

ParseBodies == NonListBodies \cup {JList(items) : items \in SeqsUpTo(ParseEntries, MaxLen)}

NoOutcome == [exc |-> NoExc, results |-> <<>>]

ParseInit ==
    /\ p_json \in ParseBodies
    /\ p_size \in 0..MaxBatch
    /\ p_out = NoOutcome
    /\ p_pc = "ready"

ParseCall ==
    /\ p_pc = "ready"
    /\ p_out' = _parse_response(p_json, p_size)
    /\ p_pc' = "done"
    /\ UNCHANGED <<p_json, p_size>>

ParseIdle ==
    /\ p_json = JNull
    /\ p_size = 0
    /\ p_out = NoOutcome
    /\ p_pc = "ready"

(***************************************************************************)
(* Parameters and __init__.                                                *)
(***************************************************************************)
\* An Optional[List] field of Parameters: None, or a list.
None == [set |-> FALSE, val |-> <<>>]
Some(list) == [set |-> TRUE, val |-> list]

URL_LIST == <<"http://a", "http://b", "http://c", "http://d">>
PORT_LIST == <<8001, 8002, 8003, 8004>>
PATH_LIST == <<"sa", "sb", "sc", "sd">>

Prefix(list, n) == SubSeq(list, 1, n)

FieldChoices(list) == {None} \cup {Some(Prefix(list, n)) : n \in 0..MaxEndpoints}

ParamChoices ==
    [server_url : FieldChoices(URL_LIST),
     server_port : FieldChoices(PORT_LIST),
     server_endpoint : FieldChoices(PATH_LIST)]

\* Mutant: only None is replaced (default if field is None else field).
OrDefaultNoneOnly(field, default) ==
    IF field.set THEN field.val ELSE <<default>>

\* field or [default]: None and the empty list are falsy.
OrDefault(field, default) ==
    IF field.set /\ field.val # <<>> THEN field.val ELSE <<default>>

__init__(p) ==
    LET urls == OrDefault(p.server_url, DEFAULT_SERVER_URL)
    IN  [server_urls |-> urls,
         server_ports |-> OrDefault(p.server_port, DEFAULT_SERVER_PORT),
         server_endpoints |-> OrDefault(p.server_endpoint, DEFAULT_SERVER_ENDPOINT),
         number_of_endpoints |-> Len(urls)]

CompInit ==
    /\ params \in ParamChoices
    /\ server_urls = __init__(params).server_urls
    /\ server_ports = __init__(params).server_ports
    /\ server_endpoints = __init__(params).server_endpoints
    /\ number_of_endpoints = __init__(params).number_of_endpoints

(***************************************************************************)
(* __call__.                                                               *)
(***************************************************************************)
Min(a, b) == IF a <= b THEN a ELSE b

Max(a, b) == IF a >= b THEN a ELSE b

\* Mutant: the shorter lists are padded with their last element.
zip_padded(a, b, c) ==
    [k \in 1..Max(Len(a), Max(Len(b), Len(c))) |->
        <<a[Min(k, Len(a))], b[Min(k, Len(b))], c[Min(k, Len(c))]>>]

\* zip(a, b, c): stops with the shortest list.
zip(a, b, c) ==
    [k \in 1..Min(Len(a), Min(Len(b), Len(c))) |-> <<a[k], b[k], c[k]>>]

Endpoints == zip(server_urls, server_ports, server_endpoints)

\* f"{url}:{port}/{endpoint}"
full_url(url, port, endpoint) == url \o ":" \o ToString(port) \o "/" \o endpoint

\* The POST of one loop iteration; sent_after is the number of ScoreVectors
\* already appended to scores when it is sent.
Post(triple, batch, appended) ==
    [url |-> full_url(triple[1], triple[2], triple[3]),
     json |-> [smiles |-> batch],
     headers |-> [Content_Type |-> "application/json"],
     timeout |-> REQUEST_TIMEOUT,
     sent_after |-> appended]

\* What requests.post comes back with: an exception, or a response.
Failure(exc) == [exc |-> exc, status_code |-> 0, json |-> JNull]
Response(status_code, json) == [exc |-> NoExc, status_code |-> status_code, json |-> json]

\* The try block: the exception it ends with, if any (with the status code a
\* ValueError reports), and the parsed results otherwise.
TryBlock(resp, data_size) ==
    IF resp.exc # NoExc
    THEN [exc |-> resp.exc, status_code |-> 0, results |-> <<>>]
    ELSE IF resp.status_code # HTTP_OK
    THEN [exc |-> "ValueError", status_code |-> resp.status_code, results |-> <<>>]
    ELSE LET parsed == _parse_response(resp.json, data_size)
         IN  IF parsed.exc # NoExc
             THEN [exc |-> parsed.exc, status_code |-> 0, results |-> <<>>]
             ELSE [exc |-> NoExc, status_code |-> 0, results |-> parsed.results]

\* Mutant: the new ScoreVector is put in front (scores.insert(0, results)).
LoopBodyPrepend(resp, data_size, sc) ==
    LET try == TryBlock(resp, data_size)
    IN  IF try.exc = NoExc
        THEN [exc |-> NoExc, status_code |-> 0, scores |-> <<try.results>> \o sc]
        ELSE IF IsRequestException(try.exc)
        THEN [exc |-> NoExc, status_code |-> 0, scores |-> <<np_full(data_size)>> \o sc]
        ELSE [exc |-> try.exc, status_code |-> try.status_code, scores |-> sc]

\* One iteration of the for loop, try and except: the exception that leaves
\* it, if any, and the list scores after it.
LoopBody(resp, data_size, sc) ==
    LET try == TryBlock(resp, data_size)
    IN  IF try.exc = NoExc
        THEN [exc |-> NoExc, status_code |-> 0, scores |-> Append(sc, try.results)]
        ELSE IF IsRequestException(try.exc)
        THEN [exc |-> NoExc, status_code |-> 0, scores |-> Append(sc, np_full(data_size))]
        ELSE [exc |-> try.exc, status_code |-> try.status_code, scores |-> sc]

NoError == [type |-> NoExc, status_code |-> 0]
NoResult == [returned |-> FALSE, scores |-> <<>>]

\* ComponentResults(scores)
ComponentResults(sc) == [returned |-> TRUE, scores |-> sc]

Batches == {Prefix(SmilesOf, n) : n \in 0..MaxBatch}

CallInit ==
    /\ pc = "idle"
    /\ smilies = <<>>
    /\ scores = <<>>
    /\ it = 0
    /\ requests = <<>>
    /\ responses = <<>>
    /\ error = NoError
    /\ result = NoResult

\* Mutant: scores is kept from one call to the next (self.scores).
CallKeepingScores(batch) ==
    /\ pc # "loop"
    /\ pc' = "loop"
    /\ smilies' = batch
    /\ scores' = scores
    /\ it' = 0
    /\ requests' = <<>>
    /\ responses' = <<>>
    /\ error' = NoError
    /\ result' = NoResult
    /\ UNCHANGED compVars

\* The host calls the component with a batch: scores = [].
Call(batch) ==
    /\ pc # "loop"
    /\ pc' = "loop"
    /\ smilies' = batch
    /\ scores' = <<>>
    /\ it' = 0
    /\ requests' = <<>>
    /\ responses' = <<>>
    /\ error' = NoError
    /\ result' = NoResult
    /\ UNCHANGED compVars

\* One iteration of the for loop, the POST coming back with resp.
Iterate(resp) ==
    /\ pc = "loop"
    /\ it < Len(Endpoints)
    /\ LET body == LoopBody(resp, Len(smilies), scores)
       IN  /\ requests' = Append(requests, Post(Endpoints[it + 1], smilies, Len(scores)))
           /\ responses' = Append(responses, resp)
           /\ it' = it + 1
           /\ IF body.exc = NoExc
              THEN /\ scores' = body.scores
                   /\ pc' = "loop"
                   /\ error' = error
              ELSE /\ scores' = <<>>
                   /\ pc' = "raised"
                   /\ error' = [type |-> body.exc, status_code |-> body.status_code]
    /\ UNCHANGED <<smilies, result, compVars>>

\* return ComponentResults(scores), once zip is exhausted.
Return ==
    /\ pc = "loop"
    /\ it = Len(Endpoints)
    /\ pc' = "returned"
    /\ result' = ComponentResults(scores)
    /\ UNCHANGED <<smilies, scores, it, requests, responses, error, compVars>>

(***************************************************************************)
(* The remote servers.                                                     *)
(***************************************************************************)
Record(k) == JDict([smiles |-> JStr(<<"C">>), prediction |-> JNum(10 + k)])
NullRecord == JDict([smiles |-> JStr(<<"C">>), prediction |-> JNull])

GoodBody(len) == JList([k \in 1..len |-> Record(k)])
ErrorBody == JDict([error |-> JStr(<<"x">>)])
HolesBody == JList(<<NullRecord, Record(2)>>)
NonDictBody == JList(<<Record(1), JStr(<<"x">>)>>)

CallBodies ==
    {ErrorBody, HolesBody, NonDictBody} \cup {GoodBody(len) : len \in 0..(MaxBatch + 1)}

ErrorStatusCodes == {404, 500}

TransportFailures == {Failure(exc) : exc \in RequestExceptions}
Rejections == {Response(code, ErrorBody) : code \in ErrorStatusCodes}
Answers == {Response(HTTP_OK, body) : body \in CallBodies}

\* A deterministic server: its reply is a function of the batch it is sent.
Profiles == {"down", "reject", "echo", "short", "junk"}

ServerReply(profile, batch) ==
    CASE profile = "down" -> Failure("ConnectionError")
      [] profile = "reject" -> Response(500, ErrorBody)
      [] profile = "echo" -> Response(HTTP_OK, GoodBody(Len(batch)))
      [] profile = "short" -> Response(HTTP_OK, GoodBody(IF Len(batch) = 0 THEN 0 ELSE Len(batch) - 1))
      [] OTHER -> Response(HTTP_OK, NonDictBody)

NoServer == <<>>
NoCall == [valid |-> FALSE, batch |-> <<>>, pc |-> "idle", error |-> NoError, result |-> NoResult]

(***************************************************************************)
(* Spec: the component called again and again, each POST answered in any   *)
(* way a remote can answer.                                                *)
(***************************************************************************)
Init ==
    /\ CompInit
    /\ CallInit
    /\ server = NoServer
    /\ lastCall = NoCall
    /\ ParseIdle

CallAny == \E batch \in Batches : Call(batch) /\ UNCHANGED <<envVars, parseVars>>
PostFails == \E resp \in TransportFailures : Iterate(resp) /\ UNCHANGED <<envVars, parseVars>>
PostRejected == \E resp \in Rejections : Iterate(resp) /\ UNCHANGED <<envVars, parseVars>>
PostAnswered == \E resp \in Answers : Iterate(resp) /\ UNCHANGED <<envVars, parseVars>>
Returns == Return /\ UNCHANGED <<envVars, parseVars>>

Next == CallAny \/ PostFails \/ PostRejected \/ PostAnswered \/ Returns

Spec == Init /\ [][Next]_vars

(***************************************************************************)
(* SpecIdem: the same component against deterministic servers, the caller  *)
(* remembering how its previous call ended.                                *)
(***************************************************************************)
InitIdem ==
    /\ CompInit
    /\ CallInit
    /\ server \in [1..Len(Endpoints) -> Profiles]
    /\ lastCall = NoCall
    /\ ParseIdle

CallAgain ==
    \E batch \in Batches :
        /\ Call(batch)
        /\ lastCall' = IF pc = "idle" THEN lastCall
                       ELSE [valid |-> TRUE, batch |-> smilies, pc |-> pc,
                             error |-> error, result |-> result]
        /\ UNCHANGED <<server, parseVars>>

PostServed ==
    /\ it < Len(Endpoints)
    /\ Iterate(ServerReply(server[it + 1], smilies))
    /\ UNCHANGED <<envVars, parseVars>>

NextIdem == CallAgain \/ PostServed \/ Returns

SpecIdem == InitIdem /\ [][NextIdem]_vars

(***************************************************************************)
(* SpecParse: _parse_response applied to every bounded input.              *)
(***************************************************************************)
InitParse ==
    /\ params = [server_url |-> None, server_port |-> None, server_endpoint |-> None]
    /\ server_urls = __init__(params).server_urls
    /\ server_ports = __init__(params).server_ports
    /\ server_endpoints = __init__(params).server_endpoints
    /\ number_of_endpoints = __init__(params).number_of_endpoints
    /\ CallInit
    /\ server = NoServer
    /\ lastCall = NoCall
    /\ ParseInit

Parses == ParseCall /\ UNCHANGED <<compVars, callVars, envVars>>

NextParse == Parses

SpecParse == InitParse /\ [][NextParse]_vars

(***************************************************************************)
(* Properties.                                                             *)
(***************************************************************************)
AllMissing(n) == [k \in 1..n |-> NaN]

Failed(resp) == resp.exc \in RequestExceptions
Rejected(resp) == resp.exc = NoExc /\ resp.status_code # 200
Answered(resp) == resp.exc = NoExc /\ resp.status_code = 200

\* The ScoreVector an endpoint's own response stands for, whatever the other
\* endpoints did.
OwnVector(resp, n) ==
    IF Failed(resp) THEN AllMissing(n) ELSE _parse_response(resp.json, n).results

ListLen(resp) == IF Answered(resp) /\ resp.json.t = "list" THEN Len(resp.json.items) ELSE -1

\* C1: every ScoreVector of a returned ResultSet has exactly as many slots as
\* the batch has molecules, whatever the remotes answered.
C1_VectorLength ==
    pc = "returned" =>
        \A k \in 1..Len(result.scores) : Len(result.scores[k]) = Len(smilies)

\* A returned call in which one endpoint sent more entries than the batch has
\* molecules and another sent fewer.
C1_Witness ==
    /\ pc = "returned"
    /\ result.returned
    /\ \E k \in 1..Len(responses) : ListLen(responses[k]) > Len(smilies)
    /\ \E k \in 1..Len(responses) :
          ListLen(responses[k]) >= 0 /\ ListLen(responses[k]) < Len(smilies)

\* C2: a call that returns yields exactly number_of_endpoints ScoreVectors.
C2_EndpointCount ==
    pc = "returned" => Len(result.scores) = number_of_endpoints

\* C3: a transport failure at endpoint k does not end the call; slot k of the
\* ResultSet is all missing values, the loop goes on to every later endpoint,
\* and every other ScoreVector is the one its own response stands for.
C3_TransportFailureIsolated ==
    \A k \in 1..Len(responses) :
        Failed(responses[k]) =>
            /\ ~(pc = "raised" /\ k = Len(responses))
            /\ pc \in {"loop", "returned"} =>
                  /\ Len(scores) = Len(responses)
                  /\ scores[k] = AllMissing(Len(smilies))
                  /\ \A j \in 1..Len(scores) :
                        j # k => scores[j] = OwnVector(responses[j], Len(smilies))
            /\ pc = "returned" =>
                  /\ Len(requests) = Len(Endpoints)
                  /\ result.scores = scores

\* A returned call over two endpoints whose first POST failed and whose second
\* was answered with predictions.
C3_Witness ==
    /\ pc = "returned"
    /\ Len(responses) = 2
    /\ Failed(responses[1])
    /\ Answered(responses[2])
    /\ Len(smilies) >= 1
    /\ ~result.scores[2][1].nan

\* C4: a status code other than 200 ends the whole call with an error naming
\* that code: nothing is returned and no later endpoint is sent a request.
C4_BadStatusAborts ==
    \A k \in 1..Len(responses) :
        Rejected(responses[k]) =>
            /\ pc = "raised"
            /\ error.type = "ValueError"
            /\ error.status_code = responses[k].status_code
            /\ result = NoResult
            /\ k = Len(responses)
            /\ Len(requests) = k

\* The first of two endpoints answered 500: the call raised before the second
\* was sent anything.
C4_Witness ==
    /\ pc = "raised"
    /\ Len(Endpoints) = 2
    /\ Len(responses) = 1
    /\ Rejected(responses[1])
    /\ error.status_code = 500

WellFormedList(json) ==
    /\ json.t = "list"
    /\ \A k \in 1..Len(json.items) :
          /\ json.items[k].t = "dict"
          /\ "prediction" \in DOMAIN json.items[k].d
          /\ json.items[k].d["prediction"].t = "num"

\* C5: for a list of well-formed records, slot i holds the prediction of entry
\* i (as a float32) for every i below both lengths, the slots past the response
\* stay missing, and the entries past the batch are ignored.
C5_PositionalAlignment ==
    (p_pc = "done" /\ WellFormedList(p_json)) =>
        /\ p_out.exc = NoExc
        /\ Len(p_out.results) = p_size
        /\ \A i \in 1..p_size :
              p_out.results[i] =
                  IF i <= Len(p_json.items)
                  THEN Num(Float32(p_json.items[i].d["prediction"].n))
                  ELSE NaN

\* A parse of more well-formed records than the batch has molecules, the first
\* prediction not a float32.
C5_Witness ==
    /\ p_pc = "done"
    /\ WellFormedList(p_json)
    /\ p_size >= 1
    /\ Len(p_json.items) > p_size
    /\ p_json.items[1].d["prediction"].n = 16777219
    /\ p_out.results[1] = Num(16777220)

\* The value a list entry stands for: its prediction when it is a dictionary
\* with a prediction that float() accepts, the missing value otherwise.
EntryValue(entry) ==
    IF /\ entry.t = "dict"
       /\ "prediction" \in DOMAIN entry.d
       /\ entry.d["prediction"].t \in {"num", "bool", "str"}
       /\ PyFloat(entry.d["prediction"]).exc = NoExc
    THEN Num(Float32(PyFloat(entry.d["prediction"]).val))
    ELSE NaN

\* C6: the parser never raises: a body that is no list gives an all-missing
\* vector, and in a list every entry decides its own slot only, a malformed
\* entry leaving it missing.
C6_ParserNeverRaises ==
    p_pc = "done" =>
        /\ p_out.exc = NoExc
        /\ p_json.t # "list" => p_out.results = AllMissing(p_size)
        /\ p_json.t = "list" =>
              /\ Len(p_out.results) = p_size
              /\ \A i \in 1..p_size :
                    p_out.results[i] =
                        IF i <= Len(p_json.items) THEN EntryValue(p_json.items[i]) ELSE NaN

Unset(field) == ~field.set \/ field.val = <<>>

\* C7: each field that is None or empty is replaced by its one-element
\* default and any other field is kept; with nothing configured the one
\* request of a call goes to http://localhost:5000/synthetic_feasibility_surrogate.
C7_Defaults ==
    /\ server_urls =
          IF Unset(params.server_url) THEN <<"http://localhost">>
          ELSE params.server_url.val
    /\ server_ports =
          IF Unset(params.server_port) THEN <<5000>> ELSE params.server_port.val
    /\ server_endpoints =
          IF Unset(params.server_endpoint) THEN <<"synthetic_feasibility_surrogate">>
          ELSE params.server_endpoint.val
    /\ (~params.server_url.set /\ ~params.server_port.set /\ ~params.server_endpoint.set) =>
          /\ Len(requests) <= 1
          /\ \A k \in 1..Len(requests) :
                requests[k].url = "http://localhost:5000/synthetic_feasibility_surrogate"
          /\ pc = "returned" => Len(requests) = 1 /\ Len(result.scores) = 1

\* A returned call of a component built from no configuration at all.
C7_Witness ==
    /\ ~params.server_url.set
    /\ ~params.server_port.set
    /\ ~params.server_endpoint.set
    /\ pc = "returned"
    /\ Len(requests) = 1

\* C8: against deterministic servers, a call that ends on the same batch as
\* the previous call ends the same way with the same ResultSet, and the
\* endpoint configuration is what construction made it.
C8_Idempotent ==
    /\ server_urls = __init__(params).server_urls
    /\ server_ports = __init__(params).server_ports
    /\ server_endpoints = __init__(params).server_endpoints
    /\ number_of_endpoints = __init__(params).number_of_endpoints
    /\ (pc \in {"returned", "raised"} /\ lastCall.valid /\ lastCall.batch = smilies) =>
          /\ lastCall.pc = pc
          /\ lastCall.error = error
          /\ lastCall.result = result

\* A second returned call on the same non-empty batch, over two endpoints of
\* which one degraded to missing values.
C8_Witness ==
    /\ pc = "returned"
    /\ lastCall.valid
    /\ lastCall.batch = smilies
    /\ Len(smilies) >= 1
    /\ Len(result.scores) = 2
    /\ \E k \in 1..2 : Failed(responses[k])
    /\ \E k \in 1..2 : ~result.scores[k][1].nan

\* C9: the j-th POST of a call goes to the j-th endpoint with the whole batch,
\* after exactly j-1 ScoreVectors were appended; no endpoint is sent a second
\* POST; the j-th ScoreVector is the one the j-th response stands for.
C9_SequentialOrder ==
    /\ Len(requests) = it
    /\ Len(responses) = it
    /\ \A j \in 1..Len(requests) :
          /\ requests[j].url =
                full_url(server_urls[j], server_ports[j], server_endpoints[j])
          /\ requests[j].json = [smiles |-> smilies]
          /\ requests[j].sent_after = j - 1
    /\ pc \in {"loop", "returned"} =>
          /\ Len(scores) = it
          /\ \A j \in 1..Len(scores) :
                scores[j] = OwnVector(responses[j], Len(smilies))
    /\ pc = "returned" => result.scores = scores

\* A returned call over two endpoints that answered differently.
C9_Witness ==
    /\ pc = "returned"
    /\ Len(requests) = 2
    /\ Answered(responses[1])
    /\ Answered(responses[2])
    /\ result.scores[1] # result.scores[2]

Shortest == Min(Len(server_urls), Min(Len(server_ports), Len(server_endpoints)))

\* C10: with lists of different lengths a call sends at most as many POSTs as
\* the shortest list has elements, exactly that many when it returns, each to
\* the address made of the elements at its own position.
C10_ZipTruncates ==
    /\ Len(requests) <= Shortest
    /\ pc = "returned" => Len(requests) = Shortest /\ Len(result.scores) = Shortest
    /\ \A j \in 1..Len(requests) :
          requests[j].url =
              server_urls[j] \o ":" \o ToString(server_ports[j]) \o "/" \o server_endpoints[j]

\* A returned call of a component with two URLs and the default port.
C10_Witness ==
    /\ pc = "returned"
    /\ Len(server_urls) = 2
    /\ ~params.server_port.set
    /\ Len(server_ports) = 1
    /\ Len(requests) = 1

====
